---- MODULE Spec2Model ----
(***************************************************************************)
(* The example pipeline of audio_understanding/datasets: GuitarSet and     *)
(* Slakh2100.  One behaviour is one dataset object (self), one item on     *)
(* disk (disk) and one call of one of the objects' methods.  No method     *)
(* assigns to self, so calls are independent of each other.                *)
(*                                                                         *)
(* Time is counted in ticks of 1/TicksPerSec second.  The audidata helpers *)
(* the datasets import (RandomCrop, load, read_single_track_midi,          *)
(* clip_notes, PianoRoll) are not part of the source tree; they are        *)
(* modelled from sections 4 and 6 of the specification.                    *)
(***************************************************************************)
EXTENDS Integers, Sequences, FiniteSets, TLC

VARIABLES self, disk, op, crops, decode, audio_data, window, parsed, handed,
          target_data, ret

vars == <<self, disk, op, crops, decode, audio_data, window, parsed, handed,
          target_data, ret>>

(***************************************************************************)
(* Bounds.                                                                 *)
(***************************************************************************)
MaxTime == 3
MaxNotes == 2
MaxStems == 3
MaxClip == 2
MaxPad == 2
TicksPerSec == 150

Fps == 100

Pitches == {60, 61}
InstClasses == {"Piano", "Bass"}
StemNames == <<"S00", "S01", "S02", "S03">>

Min(a, b) == IF a < b THEN a ELSE b
Max(a, b) == IF a > b THEN a ELSE b
SetMin(S) == CHOOSE x \in S : \A y \in S : x <= y

SeqsUpTo(S, n) == UNION {[1..k -> S] : k \in 0..n}

(***************************************************************************)
(* Section 3: the events.                                                  *)
(***************************************************************************)
NoteEvent(on, off, p) == [onset |-> on, offset |-> off, pitch |-> p, velocity |-> 100]
PedalInterval(on, off) == [onset |-> on, offset |-> off]

Intervals == {iv \in (0..MaxTime) \X (0..MaxTime) : iv[1] < iv[2]}
Notes == {NoteEvent(iv[1], iv[2], p) : iv \in Intervals, p \in Pitches}
Pedals == {PedalInterval(iv[1], iv[2]) : iv \in Intervals}

(***************************************************************************)
(* Section 4.1, Window Selector: audidata.io.crops.RandomCrop.  The set of *)
(* <<start, duration>> pairs one call may return (the start is random).    *)
(***************************************************************************)
RandomCrop(crop, audio_duration) ==
    IF audio_duration <= crop.clip_duration
    THEN {<<0, audio_duration>>}
    ELSE {<<s, crop.clip_duration>> :
            s \in 0..Max(0, audio_duration - crop.clip_duration - crop.end_pad)}

(***************************************************************************)
(* Section 6, audio decode: audidata.io.audio.load.  duration is <<>> for  *)
(* Python's None (decode to the end of the file) or <<d>>.  The buffer is  *)
(* represented by the span of the recording it holds.                      *)
(***************************************************************************)
load(audio_duration, offset, duration) ==
    [from |-> offset,
     span |-> IF duration = <<>> THEN audio_duration - offset ELSE duration[1]]

(***************************************************************************)
(* Section 4.3, Sustain Extender: the extend_pedal part of                 *)
(* audidata.io.midi.read_single_track_midi.                                *)
(***************************************************************************)
extend_offset(notes, pedals, i) ==
    LET n == notes[i]
        down == {k \in DOMAIN pedals :
                   pedals[k].onset < n.offset /\ n.offset < pedals[k].offset}
    IN IF down = {} THEN n.offset
       ELSE LET end == pedals[CHOOSE k \in down : TRUE].offset
                later == {notes[j].onset : j \in
                            {j \in DOMAIN notes :
                               /\ notes[j].pitch = n.pitch
                               /\ notes[j].onset > n.onset
                               /\ notes[j].onset < end}}
            IN IF later = {} THEN end ELSE SetMin(later)

extend(notes, pedals) ==
    [i \in DOMAIN notes |-> [notes[i] EXCEPT !.offset = extend_offset(notes, pedals, i)]]

(***************************************************************************)
(* Section 6, MIDI parse: audidata.io.midi.read_single_track_midi.  A file *)
(* that is not on disk cannot be opened: the call raises.                  *)
(***************************************************************************)
read_single_track_midi(file, extend_pedal) ==
    IF ~file.exists
    THEN [ok |-> FALSE, note |-> <<>>, pedal |-> <<>>]
    ELSE [ok |-> TRUE,
          note |-> IF extend_pedal THEN extend(file.note, file.pedal) ELSE file.note,
          pedal |-> file.pedal]

(***************************************************************************)
(* Section 4.2, Event Clipper: audidata.io.midi.clip_notes.                *)
(***************************************************************************)
RECURSIVE clip_notes(_, _, _)
clip_notes(events, start_time, duration) ==
    IF events = <<>> THEN <<>>
    ELSE LET e == Head(events)
             clamped_onset == Max(e.onset, start_time)
             clamped_offset == Min(e.offset, start_time + duration)
             rest == clip_notes(Tail(events), start_time, duration)
         IN IF clamped_offset > clamped_onset
            THEN <<[e EXCEPT !.onset = clamped_onset - start_time,
                             !.offset = clamped_offset - start_time]>> \o rest
            ELSE rest

(***************************************************************************)
(* Section 4.4, Rasterizer: audidata.transforms.midi.PianoRoll.  A roll is *)
(* the set of <<frame, pitch>> cells that are set.  round is Python's      *)
(* (half to even).                                                         *)
(***************************************************************************)
FrameFloor(t) == (t * Fps) \div TicksPerSec
FrameCeil(t) == (t * Fps + TicksPerSec - 1) \div TicksPerSec
FrameRound(t) ==
    LET q == (t * Fps) \div TicksPerSec
        r2 == 2 * ((t * Fps) % TicksPerSec)
    IN IF r2 < TicksPerSec THEN q
       ELSE IF r2 > TicksPerSec THEN q + 1
       ELSE IF q % 2 = 0 THEN q ELSE q + 1

PianoRoll(notes, duration) ==
    LET n_frames == FrameRound(duration)
        kept == {i \in DOMAIN notes : notes[i].onset < duration}
    IN IF n_frames <= 0
       THEN [kind |-> "raise", val |-> <<>>]
       ELSE [kind |-> "ok",
             val |-> <<[n_frames |-> n_frames,
                        onset_roll |-> {<<FrameFloor(notes[i].onset), notes[i].pitch>> : i \in kept},
                        frame_roll |-> UNION {{<<f, notes[i].pitch>> :
                                                 f \in FrameFloor(notes[i].onset)..(FrameCeil(notes[i].offset) - 1)} :
                                              i \in kept},
                        offset_roll |-> {<<Min(FrameFloor(notes[i].offset), n_frames - 1), notes[i].pitch>> :
                                           i \in kept}]>>]

RECURSIVE Flatten(_)
Flatten(tracks) ==
    IF tracks = <<>> THEN <<>> ELSE Head(tracks).note \o Flatten(Tail(tracks))

(***************************************************************************)
(* Results of a call: a value or a raised exception.                       *)
(***************************************************************************)
Returned(v) == [kind |-> "ok", val |-> <<v>>]
Raised == [kind |-> "raise", val |-> <<>>]
NoResult == [kind |-> "none", val |-> <<>>]
TargetRaised == [parsed |-> <<>>, handed |-> <<>>, out |-> Raised]

(***************************************************************************)
(* self.crop(audio_duration) where self.crop is set: crop is <<>> for None *)
(* or <<RandomCrop object>>; the result is <<>> when nothing was called.   *)
(***************************************************************************)
CropResults(crop, audio_duration) ==
    IF crop = <<>> THEN {<<>>}
    ELSE {<<w>> : w \in RandomCrop(crop[1], audio_duration)}

(***************************************************************************)
(* GuitarSet                                                               *)
(***************************************************************************)
GuitarSet_load_audio_data(audio_duration, cropped) ==
    LET start_time == IF cropped = <<>> THEN 0 ELSE cropped[1][1]
        clip_duration == IF cropped = <<>> THEN audio_duration ELSE cropped[1][2]
    IN [decode |-> [offset |-> start_time, duration |-> <<clip_duration>>],
        data |-> [audio |-> load(audio_duration, start_time, <<clip_duration>>),
                  start_time |-> start_time,
                  duration |-> clip_duration]]

\* Mutant: the extend_pedal option is not passed on.
GuitarSet_read_noextend(file, extend_pedal) ==
    read_single_track_midi(file, FALSE)

GuitarSet_read(file, extend_pedal) ==
    read_single_track_midi(file, extend_pedal)

\* Mutant: the events are handed on as parsed, without clip_notes.
GuitarSet_target_noclip(r, start_time, duration) ==
    [note |-> r.note,
     pedal |-> r.pedal,
     start_time |-> start_time,
     duration |-> duration]

\* Mutant: the events are clipped to a window that starts at 0.
GuitarSet_target_clipzero(r, start_time, duration) ==
    [note |-> clip_notes(r.note, 0, duration),
     pedal |-> clip_notes(r.pedal, 0, duration),
     start_time |-> start_time,
     duration |-> duration]

\* Mutant: the events are cut at the window's end but stay in absolute time.
GuitarSet_target_absolute(r, start_time, duration) ==
    [note |-> clip_notes(r.note, 0, start_time + duration),
     pedal |-> clip_notes(r.pedal, 0, start_time + duration),
     start_time |-> start_time,
     duration |-> duration]

GuitarSet_target(r, start_time, duration) ==
    [note |-> clip_notes(r.note, start_time, duration),
     pedal |-> clip_notes(r.pedal, start_time, duration),
     start_time |-> start_time,
     duration |-> duration]

\* Mutant: the notes are clipped as parsed and sustain-extended afterwards.
GuitarSet_load_target_data_late(file, start_time, duration, extend_pedal, target_transform) ==
    LET r == GuitarSet_read(file, FALSE)
        clipped == GuitarSet_target(r, start_time, duration)
        target == [clipped EXCEPT !.note = IF extend_pedal
                                           THEN extend(clipped.note, clipped.pedal)
                                           ELSE clipped.note]
    IN IF ~r.ok THEN TargetRaised
       ELSE [parsed |-> <<r>>,
             handed |-> IF target_transform THEN <<target>> ELSE <<>>,
             out |-> IF target_transform
                     THEN PianoRoll(target.note, target.duration)
                     ELSE Returned(target)]

GuitarSet_load_target_data(file, start_time, duration, extend_pedal, target_transform) ==
    LET r == GuitarSet_read(file, extend_pedal)
        target == GuitarSet_target(r, start_time, duration)
    IN IF ~r.ok THEN TargetRaised
       ELSE [parsed |-> <<r>>,
             handed |-> IF target_transform THEN <<target>> ELSE <<>>,
             out |-> IF target_transform
                     THEN PianoRoll(target.note, target.duration)
                     ELSE Returned(target)]

(***************************************************************************)
(* Slakh2100                                                               *)
(***************************************************************************)
\* Mutant: the recorded duration is always the file's.
Slakh2100_load_audio_whole(audio_duration, cropped) ==
    LET start_time == IF cropped = <<>> THEN 0 ELSE cropped[1][1]
        clip_duration == IF cropped = <<>> THEN <<>> ELSE <<cropped[1][2]>>
    IN [decode |-> [offset |-> start_time, duration |-> clip_duration],
        data |-> [audio |-> load(audio_duration, start_time, clip_duration),
                  start_time |-> start_time,
                  duration |-> audio_duration]]

Slakh2100_load_audio(audio_duration, cropped) ==
    LET start_time == IF cropped = <<>> THEN 0 ELSE cropped[1][1]
        clip_duration == IF cropped = <<>> THEN <<>> ELSE <<cropped[1][2]>>
    IN [decode |-> [offset |-> start_time, duration |-> clip_duration],
        data |-> [audio |-> load(audio_duration, start_time, clip_duration),
                  start_time |-> start_time,
                  duration |-> IF clip_duration # <<>> /\ clip_duration[1] # 0
                               THEN clip_duration[1] ELSE audio_duration]]

Slakh2100_track(stem, r) ==
    [track_name |-> stem.stem_name,
     inst_class |-> stem.inst_class,
     note |-> r.note,
     pedal |-> r.pedal]

\* Mutant: midi_saved is not consulted, every stem's file is read.
RECURSIVE Slakh2100_tracks_all(_, _)
Slakh2100_tracks_all(stems, extend_pedal) ==
    IF stems = <<>> THEN [ok |-> TRUE, parsed |-> <<>>, tracks |-> <<>>]
    ELSE LET stem == Head(stems)
             rest == Slakh2100_tracks_all(Tail(stems), extend_pedal)
             r == read_single_track_midi(stem.file, extend_pedal)
         IN IF ~r.ok \/ ~rest.ok
            THEN [ok |-> FALSE, parsed |-> <<>>, tracks |-> <<>>]
            ELSE [ok |-> TRUE,
                  parsed |-> <<r>> \o rest.parsed,
                  tracks |-> <<Slakh2100_track(stem, r)>> \o rest.tracks]

RECURSIVE Slakh2100_tracks(_, _)
Slakh2100_tracks(stems, extend_pedal) ==
    IF stems = <<>> THEN [ok |-> TRUE, parsed |-> <<>>, tracks |-> <<>>]
    ELSE LET stem == Head(stems)
             rest == Slakh2100_tracks(Tail(stems), extend_pedal)
         IN IF ~stem.midi_saved THEN rest
            ELSE LET r == read_single_track_midi(stem.file, extend_pedal)
                 IN IF ~r.ok \/ ~rest.ok
                    THEN [ok |-> FALSE, parsed |-> <<>>, tracks |-> <<>>]
                    ELSE [ok |-> TRUE,
                          parsed |-> <<r>> \o rest.parsed,
                          tracks |-> <<Slakh2100_track(stem, r)>> \o rest.tracks]

Slakh2100_load_target_data(stems, start_time, clip_duration, extend_pedal, target_transform) ==
    LET t == Slakh2100_tracks(stems, extend_pedal)
        data == [start_time |-> start_time,
                 clip_duration |-> clip_duration,
                 tracks |-> t.tracks]
    IN IF ~t.ok THEN TargetRaised
       ELSE [parsed |-> t.parsed,
             handed |-> IF target_transform THEN <<data>> ELSE <<>>,
             out |-> IF target_transform
                     THEN PianoRoll(Flatten(data.tracks), data.clip_duration)
                     ELSE Returned(data)]

\* Mutant: the record's start_time is not taken from the audio data.
Slakh2100_full_data_stale(audio, load_target, t) ==
    IF load_target /\ t.out.kind = "raise" THEN Raised
    ELSE Returned([audio |-> audio.audio,
                   start_time |-> 0,
                   duration |-> audio.duration,
                   target |-> IF load_target THEN t.out.val ELSE <<>>])

Slakh2100_full_data(audio, load_target, t) ==
    IF load_target /\ t.out.kind = "raise" THEN Raised
    ELSE Returned([audio |-> audio.audio,
                   start_time |-> audio.start_time,
                   duration |-> audio.duration,
                   target |-> IF load_target THEN t.out.val ELSE <<>>])

(***************************************************************************)
(* The dataset objects and the items on disk that are explored: objects    *)
(* with the target options set and no crop over every MIDI content, and    *)
(* objects with every crop and option over every recording length.         *)
(***************************************************************************)
Crops == {<<>>} \cup {<<[clip_duration |-> c, end_pad |-> p]>> : c \in 1..MaxClip, p \in 0..MaxPad}

MidiFile(notes, pedals) == [exists |-> TRUE, note |-> notes, pedal |-> pedals]
MissingFile == [exists |-> FALSE, note |-> <<>>, pedal |-> <<>>]
PedalSeqs == {<<>>} \cup {<<p>> : p \in Pedals}
\* Nothing depends on which pitch is which: the first note's pitch is fixed.
NoteSeqs == {ns \in SeqsUpTo(Notes, MaxNotes) : ns = <<>> \/ ns[1].pitch = 60}
MidiFiles == {MidiFile(ns, ps) : ns \in NoteSeqs, ps \in PedalSeqs}

SustainedFile == MidiFile(<<NoteEvent(0, 1, 60)>>, <<PedalInterval(0, MaxTime)>>)
LateFile == MidiFile(<<NoteEvent(MaxTime - 1, MaxTime, 61)>>, <<>>)
StemFiles == {MissingFile, SustainedFile, LateFile}
\* The file of a stem that is not midi_saved is never opened: its content is left out.
StemMetas == {m \in [midi_saved : BOOLEAN, inst_class : InstClasses, file : StemFiles] :
                m.midi_saved \/ m.file # LateFile}
Stems(metas) ==
    [i \in DOMAIN metas |-> [stem_name |-> StemNames[i],
                             midi_saved |-> metas[i].midi_saved,
                             inst_class |-> metas[i].inst_class,
                             file |-> metas[i].file]]
StemSeqs == {Stems(ms) : ms \in SeqsUpTo(StemMetas, MaxStems)}
FewStemSeqs == {Stems(ms) : ms \in SeqsUpTo({m \in StemMetas : m.inst_class = "Piano" /\ m.file = SustainedFile}, 1)}

Windows == {w \in (0..(MaxTime - 1)) \X (1..MaxTime) : w[1] + w[2] <= MaxTime}

Objects(cls, cropset, flags) ==
    {[cls |-> cls, crop |-> c, load_target |-> lt, extend_pedal |-> ep, target_transform |-> tt] :
       c \in cropset, lt \in flags, ep \in BOOLEAN, tt \in flags}

Disk(audio_duration, midi, stems) ==
    [audio_duration |-> audio_duration, midi |-> midi, stems |-> stems]

InitItems ==
    \/ /\ self \in Objects("GuitarSet", {<<>>}, {TRUE})
       /\ disk \in {Disk(MaxTime, f, <<>>) : f \in MidiFiles}
    \/ /\ self \in Objects("Slakh2100", {<<>>}, {TRUE})
       /\ disk \in {Disk(MaxTime, MissingFile, st) : st \in StemSeqs}
    \/ /\ self \in Objects("GuitarSet", Crops, BOOLEAN)
       /\ disk \in {Disk(d, SustainedFile, <<>>) : d \in 1..MaxTime}
    \/ /\ self \in Objects("Slakh2100", Crops, BOOLEAN)
       /\ disk \in {Disk(d, MissingFile, st) : d \in 1..MaxTime, st \in FewStemSeqs}

Init ==
    /\ InitItems
    /\ op = "none"
    /\ crops = 0
    /\ decode = <<>>
    /\ audio_data = <<>>
    /\ window = <<>>
    /\ parsed = <<>>
    /\ handed = <<>>
    /\ target_data = NoResult
    /\ ret = NoResult

(***************************************************************************)
(* The calls.  Each is one whole method; a behaviour makes one call.       *)
(***************************************************************************)
GuitarSet_getitem ==
    /\ op = "none" /\ self.cls = "GuitarSet"
    /\ \E cropped \in CropResults(self.crop, disk.audio_duration) :
         LET a == GuitarSet_load_audio_data(disk.audio_duration, cropped)
         IN /\ crops' = Len(cropped)
            /\ decode' = <<a.decode>>
            /\ audio_data' = <<a.data>>
    /\ op' = "GuitarSet.__getitem__"
    /\ ret' = [kind |-> "None", val |-> <<>>]
    /\ UNCHANGED <<self, disk, window, parsed, handed, target_data>>

Call_GuitarSet_load_audio_data ==
    /\ op = "none" /\ self.cls = "GuitarSet"
    /\ \E cropped \in CropResults(self.crop, disk.audio_duration) :
         LET a == GuitarSet_load_audio_data(disk.audio_duration, cropped)
         IN /\ crops' = Len(cropped)
            /\ decode' = <<a.decode>>
            /\ audio_data' = <<a.data>>
    /\ op' = "GuitarSet.load_audio_data"
    /\ UNCHANGED <<self, disk, window, parsed, handed, target_data, ret>>

Call_GuitarSet_load_target_data ==
    /\ op = "none" /\ self.cls = "GuitarSet"
    /\ \E w \in Windows :
         LET t == GuitarSet_load_target_data(disk.midi, w[1], w[2],
                                             self.extend_pedal, self.target_transform)
         IN /\ window' = <<[start_time |-> w[1], duration |-> w[2]]>>
            /\ parsed' = t.parsed
            /\ handed' = t.handed
            /\ target_data' = t.out
    /\ op' = "GuitarSet.load_target_data"
    /\ UNCHANGED <<self, disk, crops, decode, audio_data, ret>>

Slakh2100_getitem ==
    /\ op = "none" /\ self.cls = "Slakh2100"
    /\ \E cropped \in CropResults(self.crop, disk.audio_duration) :
         LET a == Slakh2100_load_audio(disk.audio_duration, cropped)
             t == Slakh2100_load_target_data(disk.stems, a.data.start_time, a.data.duration,
                                             self.extend_pedal, self.target_transform)
         IN /\ crops' = Len(cropped)
            /\ decode' = <<a.decode>>
            /\ audio_data' = <<a.data>>
            /\ IF self.load_target
               THEN /\ window' = <<[start_time |-> a.data.start_time,
                                    duration |-> a.data.duration]>>
                    /\ parsed' = t.parsed
                    /\ handed' = t.handed
                    /\ target_data' = t.out
               ELSE UNCHANGED <<window, parsed, handed, target_data>>
            /\ ret' = Slakh2100_full_data(a.data, self.load_target, t)
    /\ op' = "Slakh2100.__getitem__"
    /\ UNCHANGED <<self, disk>>

Call_Slakh2100_load_audio ==
    /\ op = "none" /\ self.cls = "Slakh2100"
    /\ \E cropped \in CropResults(self.crop, disk.audio_duration) :
         LET a == Slakh2100_load_audio(disk.audio_duration, cropped)
         IN /\ crops' = Len(cropped)
            /\ decode' = <<a.decode>>
            /\ audio_data' = <<a.data>>
    /\ op' = "Slakh2100.load_audio"
    /\ UNCHANGED <<self, disk, window, parsed, handed, target_data, ret>>

Call_Slakh2100_load_target_data ==
    /\ op = "none" /\ self.cls = "Slakh2100"
    /\ \E w \in Windows :
         LET t == Slakh2100_load_target_data(disk.stems, w[1], w[2],
                                             self.extend_pedal, self.target_transform)
         IN /\ window' = <<[start_time |-> w[1], duration |-> w[2]]>>
            /\ parsed' = t.parsed
            /\ handed' = t.handed
            /\ target_data' = t.out
    /\ op' = "Slakh2100.load_target_data"
    /\ UNCHANGED <<self, disk, crops, decode, audio_data, ret>>

Next ==
    \/ GuitarSet_getitem
    \/ Call_GuitarSet_load_audio_data
    \/ Call_GuitarSet_load_target_data
    \/ Slakh2100_getitem
    \/ Call_Slakh2100_load_audio
    \/ Call_Slakh2100_load_target_data

Spec == Init /\ [][Next]_vars

TypeOK ==
    /\ op \in {"none", "GuitarSet.__getitem__", "GuitarSet.load_audio_data",
               "GuitarSet.load_target_data", "Slakh2100.__getitem__",
               "Slakh2100.load_audio", "Slakh2100.load_target_data"}
    /\ crops \in 0..1
    /\ Len(decode) <= 1 /\ Len(audio_data) <= 1 /\ Len(window) <= 1 /\ Len(handed) <= 1

(***************************************************************************)
(* Vocabulary of the claims.                                               *)
(***************************************************************************)
IsGetitem == op \in {"GuitarSet.__getitem__", "Slakh2100.__getitem__"}
GuitarSetTarget == op = "GuitarSet.load_target_data" /\ handed # <<>>
Range(f) == {f[i] : i \in DOMAIN f}

EventsInWindow(events, duration) ==
    \A i \in DOMAIN events :
        0 <= events[i].onset /\ events[i].onset < events[i].offset /\ events[i].offset <= duration

Overlaps(e, w) ==
    Min(e.offset, w.start_time + w.duration) > Max(e.onset, w.start_time)

Rebased(e, w) ==
    [e EXCEPT !.onset = Max(e.onset, w.start_time) - w.start_time,
              !.offset = Min(e.offset, w.start_time + w.duration) - w.start_time]

\* out is the subsequence of events that overlap w, in order, each re-based.
IsClipOf(out, events, w) ==
    LET keptIdx == {i \in DOMAIN events : Overlaps(events[i], w)}
    IN /\ Len(out) = Cardinality(keptIdx)
       /\ \E f \in [DOMAIN out -> keptIdx] :
            /\ \A j, k \in DOMAIN out : j < k => f[j] < f[k]
            /\ \A k \in DOMAIN out : out[k] = Rebased(events[f[k]], w)

\* C1: every __getitem__ in which no sub-step raised returns an Example record
\* holding the audio, start_time and duration and, when load_target is set,
\* the target; it never returns nothing.
C1_getitem_returns_example ==
    (IsGetitem /\ ret.kind # "raise") =>
        /\ ret.kind = "ok"
        /\ {"audio", "start_time", "duration", "target"} \subseteq DOMAIN ret.val[1]
        /\ self.load_target => ret.val[1].target # <<>>

\* C2: every note and pedal event of a target handed to the target transform
\* (of every track in the multi-track case) is window-relative and satisfies
\* 0 <= onset < offset <= duration.
C2_target_restricted_to_window ==
    handed # <<>> =>
        IF self.cls = "GuitarSet"
        THEN /\ EventsInWindow(handed[1].note, handed[1].duration)
             /\ EventsInWindow(handed[1].pedal, handed[1].duration)
        ELSE \A k \in DOMAIN handed[1].tracks :
                /\ EventsInWindow(handed[1].tracks[k].note, handed[1].clip_duration)
                /\ EventsInWindow(handed[1].tracks[k].pedal, handed[1].clip_duration)

\* C3 as stated: clipping the clipped events of a target again, to the same
\* window, returns the identical list.
C3_clip_idempotent_same_window ==
    GuitarSetTarget =>
        /\ clip_notes(handed[1].note, handed[1].start_time, handed[1].duration) = handed[1].note
        /\ clip_notes(handed[1].pedal, handed[1].start_time, handed[1].duration) = handed[1].pedal

\* C3 as amended: the clipped events are window-relative, so clipping them
\* again to the window {start 0, same duration} returns the identical list.
C3_clip_idempotent_rebased_window ==
    GuitarSetTarget =>
        /\ clip_notes(handed[1].note, 0, handed[1].duration) = handed[1].note
        /\ clip_notes(handed[1].pedal, 0, handed[1].duration) = handed[1].pedal

C3_witness ==
    /\ GuitarSetTarget
    /\ handed[1].start_time > 0
    /\ handed[1].note # <<>>
    /\ handed[1].note # parsed[1].note

\* C4: the clipped events are exactly the events that overlap the window with
\* non-zero length after clamping, in input order, each clamped and re-based;
\* {8, 14} against {start 10, duration 5} gives {0, 4}, {20, 21} gives nothing.
C4_clip_is_rebased_subsequence ==
    /\ GuitarSetTarget =>
         /\ IsClipOf(handed[1].note, parsed[1].note, window[1])
         /\ IsClipOf(handed[1].pedal, parsed[1].pedal, window[1])
    /\ clip_notes(<<PedalInterval(8, 14)>>, 10, 5) = <<PedalInterval(0, 4)>>
    /\ clip_notes(<<PedalInterval(20, 21)>>, 10, 5) = <<>>

C4_witness ==
    /\ GuitarSetTarget
    /\ window[1].start_time > 0
    /\ Len(parsed[1].note) = 2
    /\ Len(handed[1].note) = 1
    /\ ~Overlaps(parsed[1].note[1], window[1])
    /\ handed[1].note[1].offset - handed[1].note[1].onset
         < parsed[1].note[2].offset - parsed[1].note[2].onset

\* The files a target computation reads, in reading order.
ReadFiles ==
    IF self.cls = "GuitarSet" THEN <<disk.midi>>
    ELSE LET saved == SelectSeq(disk.stems, LAMBDA st : st.midi_saved)
         IN [k \in DOMAIN saved |-> saved[k].file]

\* out is notes with the offsets rewritten by the sustain rule, nothing else.
IsExtensionOf(out, notes, pedals) ==
    /\ Len(out) = Len(notes)
    /\ \A i \in DOMAIN notes :
         LET n == notes[i]
             down == {p \in Range(pedals) : p.onset < n.offset /\ n.offset < p.offset}
         IN /\ out[i].onset = n.onset
            /\ out[i].pitch = n.pitch
            /\ out[i].velocity = n.velocity
            /\ down = {} => out[i].offset = n.offset
            /\ \A p \in down :
                 LET next == {m.onset : m \in {m \in Range(notes) :
                                 m.pitch = n.pitch /\ m.onset > n.onset /\ m.onset < p.offset}}
                 IN IF next = {} THEN out[i].offset = p.offset
                    ELSE out[i].offset \in next /\ \A x \in next : out[i].offset <= x

\* C5: with extend_pedal set, the notes read for each track are the file's
\* notes with only the offsets rewritten: to the end of the pedal interval the
\* offset lies strictly inside, clamped to the onset of the next later note of
\* the same pitch that starts before that end; otherwise unchanged.  Note
\* {0, 1, 60} with pedal {0.5, 3} ends at 3, or at 2 when a pitch-60 note
\* starts at 2 (times doubled here).
C5_sustain_extension_rule ==
    /\ (parsed # <<>> /\ self.extend_pedal) =>
         /\ Len(parsed) = Len(ReadFiles)
         /\ \A k \in DOMAIN parsed :
              /\ IsExtensionOf(parsed[k].note, ReadFiles[k].note, ReadFiles[k].pedal)
              /\ parsed[k].pedal = ReadFiles[k].pedal
    /\ extend(<<NoteEvent(0, 2, 60)>>, <<PedalInterval(1, 6)>>) = <<NoteEvent(0, 6, 60)>>
    /\ extend(<<NoteEvent(0, 2, 60), NoteEvent(4, 5, 60)>>, <<PedalInterval(1, 6)>>)
         = <<NoteEvent(0, 4, 60), NoteEvent(4, 6, 60)>>

C5_witness ==
    /\ op = "GuitarSet.load_target_data" /\ self.extend_pedal /\ parsed # <<>>
    /\ Len(disk.midi.note) = 2 /\ Len(disk.midi.pedal) = 1
    /\ disk.midi.note[1].pitch = disk.midi.note[2].pitch
    /\ parsed[1].note[1].offset > disk.midi.note[1].offset
    /\ parsed[1].note[1].offset = disk.midi.note[2].onset
    /\ parsed[1].note[1].offset < disk.midi.pedal[1].offset

\* The raw note n ends at or before the window's start, its sustain-extended
\* form x ends after it, and it starts before the window's end.
Crossing(n, x, w) ==
    /\ n.offset <= w.start_time
    /\ x.offset > w.start_time
    /\ n.onset < w.start_time + w.duration

TargetTracks ==
    IF self.cls = "GuitarSet" THEN <<handed[1].note>>
    ELSE [k \in DOMAIN handed[1].tracks |-> handed[1].tracks[k].note]

\* The crossing notes of every file read are in the target, clipped to the
\* window where the target is clipped and whole where it is not.
CrossingNotesPresent ==
    /\ Len(TargetTracks) = Len(ReadFiles)
    /\ \A k \in DOMAIN ReadFiles :
         LET raw == ReadFiles[k].note
             ext == extend(raw, ReadFiles[k].pedal)
         IN \A i \in DOMAIN raw :
              Crossing(raw[i], ext[i], window[1]) =>
                \E j \in DOMAIN TargetTracks[k] :
                    \/ TargetTracks[k][j] = Rebased(ext[i], window[1])
                    \/ TargetTracks[k][j] = ext[i]

C7_window_contained ==
    (audio_data # <<>> /\ self.crop # <<>>
       /\ disk.audio_duration >= self.crop[1].clip_duration) =>
        /\ 0 <= audio_data[1].start_time
        /\ audio_data[1].start_time + audio_data[1].duration <= disk.audio_duration
        /\ audio_data[1].duration = self.crop[1].clip_duration
        /\ audio_data[1].audio = [from |-> audio_data[1].start_time,
                                  span |-> self.crop[1].clip_duration]

C7_witness ==
    /\ audio_data # <<>> /\ self.crop # <<>>
    /\ disk.audio_duration > self.crop[1].clip_duration
    /\ self.crop[1].end_pad > disk.audio_duration - self.crop[1].clip_duration
    /\ audio_data[1].duration = self.crop[1].clip_duration

SlakhTargetAttempted ==
    \/ op = "Slakh2100.load_target_data"
    \/ op = "Slakh2100.__getitem__" /\ self.load_target

SlakhData == IF handed # <<>> THEN handed[1] ELSE target_data.val[1]

TrackKeys(tracks) ==
    [k \in DOMAIN tracks |-> <<tracks[k].track_name, tracks[k].inst_class>>]
StemKeys(stems) ==
    [k \in DOMAIN stems |-> <<stems[k].stem_name, stems[k].inst_class>>]

\* C8 as stated: when the MIDI file of a stem is missing, the target
\* computation does not fail and returns the tracks of the other stems, in
\* metadata order, each with its own key and instrument class.
C8_missing_file_omitted ==
    (SlakhTargetAttempted /\ \E i \in DOMAIN disk.stems : ~disk.stems[i].file.exists) =>
        /\ target_data.kind = "ok"
        /\ TrackKeys(SlakhData.tracks) =
             StemKeys(SelectSeq(disk.stems, LAMBDA st : st.midi_saved /\ st.file.exists))

\* C8 as amended: a stem whose metadata says midi_saved is false is omitted and
\* the tracks of the midi_saved stems are returned in metadata order with
\* their keys and instrument classes; a midi_saved stem whose file is missing
\* fails the whole computation.
C8_unsaved_stem_omitted ==
    SlakhTargetAttempted =>
        IF \E i \in DOMAIN disk.stems : disk.stems[i].midi_saved /\ ~disk.stems[i].file.exists
        THEN /\ target_data.kind = "raise"
             /\ op = "Slakh2100.__getitem__" => ret.kind = "raise"
        ELSE /\ target_data.kind = "ok"
             /\ op = "Slakh2100.__getitem__" => ret.kind = "ok"
             /\ TrackKeys(SlakhData.tracks) =
                  StemKeys(SelectSeq(disk.stems, LAMBDA st : st.midi_saved))

C8_witness ==
    /\ SlakhTargetAttempted /\ target_data.kind = "ok"
    /\ Len(disk.stems) = 3
    /\ ~disk.stems[2].midi_saved /\ ~disk.stems[2].file.exists
    /\ Len(SlakhData.tracks) = 2
    /\ SlakhData.tracks[1].inst_class # SlakhData.tracks[2].inst_class
    /\ SlakhData.tracks[2].track_name = "S02"

\* C9: a __getitem__ selects the window once; the (start_time, duration) of
\* the returned example is the pair the audio was decoded with and the pair
\* handed to the target derivation; without a crop it is (0, total duration).
C9_one_window_per_example ==
    IsGetitem =>
        /\ crops = IF self.crop = <<>> THEN 0 ELSE 1
        /\ ret.kind = "ok" =>
             LET e == ret.val[1]
             IN /\ e.start_time = decode[1].offset
                /\ e.duration = IF decode[1].duration = <<>>
                                THEN disk.audio_duration - decode[1].offset
                                ELSE decode[1].duration[1]
                /\ e.audio = [from |-> e.start_time, span |-> e.duration]
                /\ self.load_target =>
                     window = <<[start_time |-> e.start_time, duration |-> e.duration]>>
                /\ self.crop = <<>> => e.start_time = 0 /\ e.duration = disk.audio_duration

C9_witness ==
    /\ op = "Slakh2100.__getitem__" /\ self.crop # <<>> /\ self.load_target
    /\ ret.kind = "ok" /\ ret.val[1].start_time > 0
    /\ window # <<>> /\ handed # <<>>

RollCells(g) == g.onset_roll \cup g.frame_roll \cup g.offset_roll

====
